---------------------------- MODULE Spec2Model ----------------------------
(***************************************************************************)
(* Model of server/dnsmassq-api-driver.py: a Flask service that keeps DNS  *)
(* host overrides in the uci "dhcp" configuration.                         *)
(*                                                                         *)
(* Text is modelled as a sequence of one-character strings, so that the    *)
(* parsing (get_records) and the formatting (f"/{domain}/{ip}") are        *)
(* computed as the code computes them.                                     *)
(***************************************************************************)
EXTENDS Integers, Sequences, FiniteSets, TLC

VARIABLES
    store,      \* uci: the entries of list dhcp.@dnsmasq[0].address (staged)
    committed,  \* uci: the entries last written by "uci commit dhcp"
    running,    \* dnsmasq: the entries loaded by the last reload
    lock,       \* the threading.Lock: 0 when free, else the holder
    nfail,      \* number of external commands that have failed so far
    pc,         \* per request thread: its position in the handler
    req,        \* per request thread: method, path, key and json body
    records,    \* per request thread: the local `records`
    matches,    \* per request thread: the local `matches` not yet deleted
    cmds,       \* per request thread: the run_cmd calls made, with their rc
    resp,       \* per request thread: the response
    text,       \* parser run: the stdout of "uci show dhcp"
    parsed      \* parser run: what get_records returned for it

svars == <<store, committed, running, lock, nfail, pc, req, records, matches,
           cmds, resp>>
pvars == <<text, parsed>>
vars == <<store, committed, running, lock, nfail, pc, req, records, matches,
          cmds, resp, text, parsed>>

-----------------------------------------------------------------------------
(* Python str operations on sequences of characters *)

NL == "\n"
Whitespace == {" ", NL}

RECURSIVE LStrip(_, _)
LStrip(s, cs) ==
    IF s # <<>> /\ Head(s) \in cs THEN LStrip(Tail(s), cs) ELSE s

RECURSIVE RStrip(_, _)
RStrip(s, cs) ==
    IF s # <<>> /\ s[Len(s)] \in cs THEN RStrip(SubSeq(s, 1, Len(s) - 1), cs)
    ELSE s

\* str.strip(chars)
Strip(s, cs) == RStrip(LStrip(s, cs), cs)

StartsAt(s, sub, i) ==
    /\ i + Len(sub) - 1 <= Len(s)
    /\ SubSeq(s, i, i + Len(sub) - 1) = sub

\* sub in s
Contains(s, sub) == \E i \in 1..Len(s) : StartsAt(s, sub, i)

\* str.find(sub) + 1, 0 when absent
Find(s, sub) ==
    IF Contains(s, sub)
    THEN CHOOSE i \in 1..Len(s) :
            /\ StartsAt(s, sub, i)
            /\ \A j \in 1..(i - 1) : ~StartsAt(s, sub, j)
    ELSE 0

\* str.split(sep, 1): one piece when sep is absent, else two
SplitFirst(s, sep) ==
    LET i == Find(s, sep)
    IN  IF i = 0 THEN <<s>>
        ELSE <<SubSeq(s, 1, i - 1), SubSeq(s, i + Len(sep), Len(s))>>

\* str.split(sep)
RECURSIVE Split(_, _)
Split(s, sep) ==
    LET i == Find(s, sep)
    IN  IF i = 0 THEN <<s>>
        ELSE <<SubSeq(s, 1, i - 1)>>
             \o Split(SubSeq(s, i + Len(sep), Len(s)), sep)

\* str.count(c) for a single character
CountChar(s, c) == Cardinality({i \in 1..Len(s) : s[i] = c})

\* str.splitlines() for text whose only line break is "\n"
RECURSIVE SplitLines(_)
SplitLines(s) ==
    IF s = <<>> THEN <<>>
    ELSE LET i == Find(s, <<NL>>)
         IN  IF i = 0 THEN <<s>>
             ELSE <<SubSeq(s, 1, i - 1)>>
                  \o SplitLines(SubSeq(s, i + 1, Len(s)))

RECURSIVE Join(_, _)
Join(ss, sep) ==
    IF ss = <<>> THEN <<>>
    ELSE IF Len(ss) = 1 THEN ss[1]
    ELSE ss[1] \o sep \o Join(Tail(ss), sep)

-----------------------------------------------------------------------------
(* get_records: the parser of the configuration dump *)

AddressMarker == <<".", "a", "d", "d", "r", "e", "s", "s", "=">>
QuoteSep == <<"'", " ", "'">>

Rec(domain, ip) == [domain |-> domain, ip |-> ip]

\* lines 55: v.strip().strip("'").strip('"')
Unquote(v) == Strip(Strip(Strip(v, Whitespace), {"'"}), {"\""})

\* lines 59-63: the non-empty parts of a multi-entry value
RECURSIVE NonEmptyParts(_)
NonEmptyParts(parts) ==
    IF parts = <<>> THEN <<>>
    ELSE LET part == Unquote(Head(parts))
         IN  (IF part # <<>> THEN <<part>> ELSE <<>>)
             \o NonEmptyParts(Tail(parts))

\* lines 54-65: the list entries of one line
EntriesOfLine(line) ==
    LET v == Unquote(SplitFirst(line, <<"=">>)[2])
    IN  IF Contains(v, QuoteSep) THEN NonEmptyParts(Split(v, QuoteSep))
        ELSE <<v>>

\* line 72: domain and ip and "." in domain
EntryFieldsOk(domain, ip) ==
    domain # <<>> /\ ip # <<>> /\ Contains(domain, <<".">>)

\* line 70: entry.count("/") == 1
OneSlash(entry) == CountChar(entry, "/") = 1

\* lines 68-73: the records (none or one) of one entry
RecordsOfEntry(entry0) ==
    LET entry == IF entry0 # <<>> /\ Head(entry0) = "/" THEN Tail(entry0)
                 ELSE entry0
    IN  IF OneSlash(entry)
        THEN LET p == SplitFirst(entry, <<"/">>)
             IN  IF EntryFieldsOk(p[1], p[2])
                 THEN <<Rec(Strip(p[1], Whitespace), Strip(p[2], Whitespace))>>
                 ELSE <<>>
        ELSE <<>>

RECURSIVE RecordsOfEntries(_)
RecordsOfEntries(entries) ==
    IF entries = <<>> THEN <<>>
    ELSE RecordsOfEntry(Head(entries)) \o RecordsOfEntries(Tail(entries))

\* line 51: `if ".address=" not in line: continue`
IsAddressLine(line) == Contains(line, AddressMarker)

RECURSIVE RecordsOfLines(_)
RecordsOfLines(lines) ==
    IF lines = <<>> THEN <<>>
    ELSE (IF IsAddressLine(Head(lines))
          THEN RecordsOfEntries(EntriesOfLine(Head(lines)))
          ELSE <<>>)
         \o RecordsOfLines(Tail(lines))

\* run_cmd strips stdout (line 40); get_records parses its lines (49-79)
ParseDump(stdout) == RecordsOfLines(SplitLines(Strip(stdout, Whitespace)))


-----------------------------------------------------------------------------
(* The validators *)

Digits == {"0", "1", "2", "3", "4", "5", "6", "7", "8", "9"}
\* the letters of [a-zA-Z] that occur in the texts of this model
Letters == {"a", "b", "c", "d", "e", "h", "r", "s"}
\* RE_DOMAIN's label class [a-zA-Z0-9-]
LabelChars == Letters \cup Digits \cup {"-"}

DigitVal(c) ==
    CASE c = "0" -> 0 [] c = "1" -> 1 [] c = "2" -> 2 [] c = "3" -> 3
      [] c = "4" -> 4 [] c = "5" -> 5 [] c = "6" -> 6 [] c = "7" -> 7
      [] c = "8" -> 8 [] c = "9" -> 9

\* int(p) for a string of digits
RECURSIVE IntOf(_)
IntOf(p) ==
    IF p = <<>> THEN 0
    ELSE 10 * IntOf(SubSeq(p, 1, Len(p) - 1)) + DigitVal(p[Len(p)])

\* RE_DOMAIN.fullmatch: non-empty labels of label characters joined by "."
validate_domain(domain) ==
    LET labels == Split(domain, <<".">>)
    IN  \A i \in 1..Len(labels) :
            /\ labels[i] # <<>>
            /\ \A j \in 1..Len(labels[i]) : labels[i][j] \in LabelChars

\* RE_IP.fullmatch, then every group in 0..255
validate_ip(ip) ==
    LET parts == Split(ip, <<".">>)
    IN  /\ Len(parts) = 4
        /\ \A i \in 1..4 :
              /\ Len(parts[i]) \in 1..3
              /\ \A j \in 1..Len(parts[i]) : parts[i][j] \in Digits
        /\ \A i \in 1..4 : IntOf(parts[i]) <= 255

-----------------------------------------------------------------------------
(* The uci store and the external commands *)

\* f"/{domain}/{ip}"
FormatEntry(domain, ip) == <<"/">> \o domain \o <<"/">> \o ip

RECURSIVE QuoteAll(_)
QuoteAll(entries) ==
    IF entries = <<>> THEN <<>>
    ELSE <<<<"'">> \o Head(entries) \o <<"'">>>> \o QuoteAll(Tail(entries))

OtherLine == <<"d", ".", "d", "=", "'", "1", "'">>
AddressKey == <<"d", ".", "a", "d", "d", "r", "e", "s", "s">>

\* stdout of "uci show dhcp": one line per option, a list as 'v1' 'v2'
UciShow(entries) ==
    IF entries = <<>> THEN OtherLine
    ELSE OtherLine \o <<NL>> \o AddressKey \o <<"=">>
         \o Join(QuoteAll(entries), <<" ">>) \o <<NL>>

\* "uci add_list": appends the value, duplicates included
UciAddList(entries, value) == Append(entries, value)

\* "uci del_list": removes every list item equal to the value
UciDelList(entries, value) ==
    SelectSeq(entries, LAMBDA e : e # value)

\* get_records on the current store, the command having succeeded
get_records(entries) == ParseDump(UciShow(entries))

-----------------------------------------------------------------------------
(* Requests *)

Reqs == {1, 2}
MaxFail == 1

API_KEY == "secret"
Keys == {"secret", "wrong", "none"}
Methods == {"GET", "POST", "PUT", "DELETE"}
Paths == {"/dns", "/health", "/other"}

D_ab == <<"a", ".", "b">>
D_cd == <<"c", ".", "d">>
D_h == <<"h">>
D_bad == <<"a", ".", ".", "b">>
Ip1 == <<"1", ".", "1", ".", "1", ".", "1">>
Ip2 == <<"1", ".", "1", ".", "1", ".", "2">>
Ip_bad == <<"2", "5", "6", ".", "1", ".", "1", ".", "1">>
Empty == <<>>

\* the values a request body may carry in each field
Domains == {D_ab, D_cd, D_h, D_bad, Empty}
PostIps == {Ip1, Ip_bad, Empty}
FilterIps == {Ip1, Empty}
NewIps == {Ip2, Ip_bad, Empty}

NoBody == [domain |-> Empty, ip |-> Empty, new_ip |-> Empty]
NoReq == [method |-> "-", path |-> "-", key |-> "-", body |-> NoBody]
NoResp == [code |-> 0, status |-> "-", records |-> <<>>]
Resp(code, status) == [code |-> code, status |-> status, records |-> <<>>]

InitStores ==
    { <<>>,
      <<FormatEntry(D_ab, Ip1)>>,
      <<FormatEntry(D_ab, Ip1), FormatEntry(D_ab, Ip2)>>,
      <<FormatEntry(D_ab, Ip1), FormatEntry(D_ab, Ip1)>>,
      <<D_ab \o <<"/">> \o Ip1>>,
      <<FormatEntry(D_cd, Ip1), <<"/">> \o D_ab>> }

Cmd(name, rc) == [cmd |-> name, rc |-> rc]

\* the exit codes a command may return: failures are bounded by MaxFail
Rcs == IF nfail < MaxFail THEN {0, 1} ELSE {0}

Failed(rc) == IF rc # 0 THEN nfail + 1 ELSE nfail

NotParsed == [done |-> FALSE, records |-> <<>>]

Init ==
    /\ store \in InitStores
    /\ committed = store
    /\ running = store
    /\ lock = 0
    /\ nfail = 0
    /\ pc = [r \in Reqs |-> "idle"]
    /\ req = [r \in Reqs |-> NoReq]
    /\ records = [r \in Reqs |-> <<>>]
    /\ matches = [r \in Reqs |-> <<>>]
    /\ cmds = [r \in Reqs |-> <<>>]
    /\ resp = [r \in Reqs |-> NoResp]
    /\ text = <<>>
    /\ parsed = NotParsed

-----------------------------------------------------------------------------
(* The request handlers; every run_cmd call is one step *)

Finish(r, rsp) ==
    /\ resp' = [resp EXCEPT ![r] = rsp]
    /\ pc' = [pc EXCEPT ![r] = "done"]

\* an exit inside `with lock:`: the response is decided, the lock still held
Leave(r, rsp) ==
    /\ resp' = [resp EXCEPT ![r] = rsp]
    /\ pc' = [pc EXCEPT ![r] = "release"]

Run(r, name, rc) ==
    /\ cmds' = [cmds EXCEPT ![r] = Append(@, Cmd(name, rc))]
    /\ nfail' = Failed(rc)

\* a request arrives on a thread of its own
Arrive(r) ==
    /\ pc[r] = "idle"
    /\ \E m \in Methods, p \in Paths, k \in Keys :
          req' = [req EXCEPT ![r] = [method |-> m, path |-> p, key |-> k,
                                     body |-> NoBody]]
    /\ pc' = [pc EXCEPT ![r] = "auth"]
    /\ UNCHANGED <<store, committed, running, lock, nfail, records, matches,
                   cmds, resp>>

\* a check that lets a request without the header through
KeyRejected_OnlyWrong(key) == key # "none" /\ key # API_KEY

\* check_auth: key != API_KEY
KeyRejected(key) == key # API_KEY

\* auth_check: only /health skips check_auth
NeedsAuth(path) == path # "/health"

\* @app.before_request auth_check
AuthCheck(r) ==
    /\ pc[r] = "auth"
    /\ IF NeedsAuth(req[r].path) /\ KeyRejected(req[r].key)
       THEN Finish(r, Resp(401, "unauthorized"))
       ELSE /\ pc' = [pc EXCEPT ![r] = "route"]
            /\ UNCHANGED resp
    /\ UNCHANGED <<store, committed, running, lock, nfail, req, records,
                   matches, cmds>>

\* no view function for the path and method: werkzeug answers 404 or 405
NoRoute(r) ==
    /\ pc[r] = "route"
    /\ \/ /\ req[r].path = "/other"
          /\ Finish(r, Resp(404, "no_route"))
       \/ /\ req[r].path = "/health"
          /\ req[r].method # "GET"
          /\ Finish(r, Resp(405, "no_route"))
    /\ UNCHANGED <<store, committed, running, lock, nfail, req, records,
                   matches, cmds>>

health(r) ==
    /\ pc[r] = "route"
    /\ req[r].path = "/health"
    /\ req[r].method = "GET"
    /\ Finish(r, Resp(200, "ok"))
    /\ UNCHANGED <<store, committed, running, lock, nfail, req, records,
                   matches, cmds>>

\* GET /dns: get_records without the lock
list_dns(r) ==
    /\ pc[r] = "route"
    /\ req[r].path = "/dns"
    /\ req[r].method = "GET"
    /\ \E rc \in Rcs :
          /\ Run(r, "show", rc)
          /\ IF rc # 0
             THEN Finish(r, Resp(500, "error"))
             ELSE Finish(r, [code |-> 200, status |-> "records",
                             records |-> get_records(store)])
    /\ UNCHANGED <<store, committed, running, lock, req, records, matches>>

\* the json body with every field stripped
Stripped(b) ==
    [domain |-> Strip(b.domain, Whitespace), ip |-> Strip(b.ip, Whitespace),
     new_ip |-> Strip(b.new_ip, Whitespace)]

\* add_dns, lines 99-106
add_dns_validate(r) ==
    /\ pc[r] = "route"
    /\ req[r].path = "/dns"
    /\ req[r].method = "POST"
    /\ \E d \in Domains, i \in PostIps :
          LET b == Stripped([domain |-> d, ip |-> i, new_ip |-> Empty])
          IN  /\ req' = [req EXCEPT ![r].body = b]
              /\ IF b.domain = Empty \/ b.ip = Empty
                 THEN Finish(r, Resp(400, "required"))
                 ELSE IF ~validate_domain(b.domain) \/ ~validate_ip(b.ip)
                 THEN Finish(r, Resp(400, "invalid"))
                 ELSE /\ pc' = [pc EXCEPT ![r] = "lock"]
                      /\ UNCHANGED resp
    /\ UNCHANGED <<store, committed, running, lock, nfail, records, matches,
                   cmds>>

\* update_dns, lines 127-135
update_dns_validate(r) ==
    /\ pc[r] = "route"
    /\ req[r].path = "/dns"
    /\ req[r].method = "PUT"
    /\ \E d \in Domains, i \in FilterIps, n \in NewIps :
          LET b == Stripped([domain |-> d, ip |-> i, new_ip |-> n])
          IN  /\ req' = [req EXCEPT ![r].body = b]
              /\ IF b.domain = Empty \/ b.new_ip = Empty
                 THEN Finish(r, Resp(400, "required"))
                 ELSE IF ~validate_domain(b.domain) \/ ~validate_ip(b.new_ip)
                 THEN Finish(r, Resp(400, "invalid"))
                 ELSE /\ pc' = [pc EXCEPT ![r] = "lock"]
                      /\ UNCHANGED resp
    /\ UNCHANGED <<store, committed, running, lock, nfail, records, matches,
                   cmds>>

\* delete_dns, lines 157-164
delete_dns_validate(r) ==
    /\ pc[r] = "route"
    /\ req[r].path = "/dns"
    /\ req[r].method = "DELETE"
    /\ \E d \in Domains, i \in FilterIps :
          LET b == Stripped([domain |-> d, ip |-> i, new_ip |-> Empty])
          IN  /\ req' = [req EXCEPT ![r].body = b]
              /\ IF b.domain = Empty
                 THEN Finish(r, Resp(400, "required"))
                 ELSE IF ~validate_domain(b.domain)
                 THEN Finish(r, Resp(400, "invalid"))
                 ELSE /\ pc' = [pc EXCEPT ![r] = "lock"]
                      /\ UNCHANGED resp
    /\ UNCHANGED <<store, committed, running, lock, nfail, records, matches,
                   cmds>>

\* a handler that does not wait for the lock
CanAcquire_Always(r) == TRUE

\* Lock.acquire() succeeds only on a free lock
CanAcquire(r) == lock = 0

\* `with lock:` entered
Acquire(r) ==
    /\ pc[r] = "lock"
    /\ CanAcquire(r)
    /\ lock' = r
    /\ pc' = [pc EXCEPT ![r] = "read"]
    /\ UNCHANGED <<store, committed, running, nfail, req, records, matches,
                   cmds, resp>>

\* line 112: any(r["domain"] == domain and r["ip"] == ip for r in records)
Exists(recs, domain, ip) ==
    \E i \in 1..Len(recs) : recs[i].domain = domain /\ recs[i].ip = ip

\* a filter that forgets the domain
Matches_AnyDomain(recs, domain, ip) ==
    SelectSeq(recs, LAMBDA x : ip = Empty \/ x.ip = ip)

\* lines 139 and 168: the records of the domain, and of the ip when given
Matches(recs, domain, ip) ==
    SelectSeq(recs, LAMBDA x : x.domain = domain /\ (ip = Empty \/ x.ip = ip))

\* `records, _ = get_records()` under the lock, and the test that follows;
\* a failed dump leaves records = None, and iterating it raises TypeError
Read(r) ==
    /\ pc[r] = "read"
    /\ \E rc \in Rcs :
          /\ Run(r, "show", rc)
          /\ IF rc # 0
             THEN /\ Leave(r, Resp(500, "crash"))
                  /\ UNCHANGED <<records, matches>>
             ELSE LET recs == get_records(store)
                      b == req[r].body
                      ms == Matches(recs, b.domain, b.ip)
                  IN  /\ records' = [records EXCEPT ![r] = recs]
                      /\ IF req[r].method = "POST"
                         THEN /\ IF Exists(recs, b.domain, b.ip)
                                 THEN Leave(r, Resp(200, "exists"))
                                 ELSE /\ pc' = [pc EXCEPT ![r] = "add"]
                                      /\ UNCHANGED resp
                              /\ UNCHANGED matches
                         ELSE IF ms = <<>>
                         THEN /\ Leave(r, Resp(404, "not_found"))
                              /\ UNCHANGED matches
                         ELSE /\ matches' = [matches EXCEPT ![r] = ms]
                              /\ pc' = [pc EXCEPT ![r] = "del"]
                              /\ UNCHANGED resp
    /\ UNCHANGED <<store, committed, running, lock, req>>

\* a delete that reloads without the commit
AfterDelete_NoCommit(method) == IF method = "PUT" THEN "add" ELSE "reload"

\* what follows the last del_list: the add_list of update_dns (line 148),
\* the commit of delete_dns (line 176)
AfterDelete(method) == IF method = "PUT" THEN "add" ELSE "commit"

\* one turn of `for r in matches:`, lines 143-145 and 172-174
DelList(r) ==
    /\ pc[r] = "del"
    /\ \E rc \in Rcs :
          /\ Run(r, "del_list", rc)
          /\ store' = IF rc = 0
                      THEN UciDelList(store, FormatEntry(Head(matches[r]).domain,
                                                         Head(matches[r]).ip))
                      ELSE store
    /\ matches' = [matches EXCEPT ![r] = Tail(@)]
    /\ pc' = [pc EXCEPT ![r] =
                 IF Tail(matches[r]) # <<>> THEN "del"
                 ELSE AfterDelete(req[r].method)]
    /\ UNCHANGED <<committed, running, lock, req, records, resp>>

\* whether the handler looks at the exit code of its add_list (lines 116, 148)
ChecksAddRc(method) == method = "POST"

\* an add failure reported as a bad request
AddFailedResp_BadRequest == Resp(400, "add_failed")

\* line 117: {"error": "add failed", "detail": err}, 500
AddFailedResp == Resp(500, "add_failed")

\* the ip appended: `ip` for POST, `new_ip` for PUT
AddedIp(r) ==
    IF req[r].method = "POST" THEN req[r].body.ip ELSE req[r].body.new_ip

\* lines 115-117 and 147-148
AddList(r) ==
    /\ pc[r] = "add"
    /\ \E rc \in Rcs :
          /\ Run(r, "add_list", rc)
          /\ store' = IF rc = 0
                      THEN UciAddList(store,
                                      FormatEntry(req[r].body.domain, AddedIp(r)))
                      ELSE store
          /\ IF rc # 0 /\ ChecksAddRc(req[r].method)
             THEN Leave(r, AddFailedResp)
             ELSE /\ pc' = [pc EXCEPT ![r] = "commit"]
                  /\ UNCHANGED resp
    /\ UNCHANGED <<committed, running, lock, req, records, matches>>

\* run_cmd(["uci", "commit", "dhcp"])
Commit(r) ==
    /\ pc[r] = "commit"
    /\ \E rc \in Rcs :
          /\ Run(r, "commit", rc)
          /\ committed' = IF rc = 0 THEN store ELSE committed
    /\ pc' = [pc EXCEPT ![r] = "reload"]
    /\ UNCHANGED <<store, running, lock, req, records, matches, resp>>

SuccessStatus(method) ==
    CASE method = "POST" -> "added"
      [] method = "PUT" -> "updated"
      [] method = "DELETE" -> "deleted"

\* run_cmd(["/etc/init.d/dnsmasq", "reload"]), the last command under the lock
Reload(r) ==
    /\ pc[r] = "reload"
    /\ \E rc \in Rcs :
          /\ Run(r, "reload", rc)
          /\ running' = IF rc = 0 THEN committed ELSE running
    /\ Leave(r, Resp(200, SuccessStatus(req[r].method)))
    /\ UNCHANGED <<store, committed, lock, req, records, matches>>

\* the end of `with lock:`, then the return
Release(r) ==
    /\ pc[r] = "release"
    /\ lock' = 0
    /\ pc' = [pc EXCEPT ![r] = "done"]
    /\ UNCHANGED <<store, committed, running, nfail, req, records, matches,
                   cmds, resp>>

Step(r) ==
    \/ Arrive(r)
    \/ AuthCheck(r)
    \/ NoRoute(r)
    \/ health(r)
    \/ list_dns(r)
    \/ add_dns_validate(r)
    \/ update_dns_validate(r)
    \/ delete_dns_validate(r)
    \/ Acquire(r)
    \/ Read(r)
    \/ DelList(r)
    \/ AddList(r)
    \/ Commit(r)
    \/ Reload(r)
    \/ Release(r)

Next == (\E r \in Reqs : Step(r)) /\ UNCHANGED pvars

Spec == Init /\ [][Next]_vars

-----------------------------------------------------------------------------
(* get_records applied to dump texts *)

MaxLines == 2
MaxEntries == 2

V_ok == <<"/", "a", ".", "b", "/", "1">>
V_nolead == <<"a", ".", "b", "/", "1">>
V_nodot == <<"/", "a", "b", "/", "1">>
V_noslash == <<"/", "a", ".", "b">>
V_twoslash == <<"/", "a", ".", "b", "/", "1", "/", "2">>
V_nodomain == <<"/", "/", "1">>
V_noip == <<"/", "a", ".", "b", "/">>
V_marker == <<"/", "c", ".", "a", "d", "d", "r", "e", "s", "s", "=", "d",
              "/", "1">>

\* the values an option of the dump may hold
Values == {V_ok, V_nolead, V_nodot, V_noslash, V_twoslash, V_nodomain, V_noip,
           V_marker, Empty}

ServerKey == <<"d", ".", "s", "e", "r", "v", "e", "r">>
OptionKeys == {AddressKey, ServerKey}

ValueLists == UNION {[1..n -> Values] : n \in 1..MaxEntries}

\* a line of "uci show": key='v1' 'v2', or the value without quotes
DumpLine(key, vs, quoted) ==
    key \o <<"=">> \o (IF quoted THEN Join(QuoteAll(vs), <<" ">>)
                       ELSE Join(vs, <<" ">>))

LinesOf(t) == SplitLines(Strip(t, Whitespace))

\* the dump grows by one line
AppendLine ==
    /\ ~parsed.done
    /\ Len(SplitLines(text)) < MaxLines
    /\ \E key \in OptionKeys, vs \in ValueLists, quoted \in BOOLEAN :
          text' = text \o DumpLine(key, vs, quoted) \o <<NL>>
    /\ UNCHANGED parsed

\* get_records on the dump, the command having succeeded
Parse ==
    /\ ~parsed.done
    /\ parsed' = [done |-> TRUE, records |-> ParseDump(text)]
    /\ UNCHANGED text

InitParse ==
    /\ store = <<>>
    /\ committed = <<>>
    /\ running = <<>>
    /\ lock = 0
    /\ nfail = 0
    /\ pc = [r \in Reqs |-> "idle"]
    /\ req = [r \in Reqs |-> NoReq]
    /\ records = [r \in Reqs |-> <<>>]
    /\ matches = [r \in Reqs |-> <<>>]
    /\ cmds = [r \in Reqs |-> <<>>]
    /\ resp = [r \in Reqs |-> NoResp]
    /\ text = <<>>
    /\ parsed = NotParsed

NextParse == (AppendLine \/ Parse) /\ UNCHANGED svars

SpecParse == InitParse /\ [][NextParse]_vars

-----------------------------------------------------------------------------
(* Properties of the parser *)

\* the key of a line, the text before its first "="
KeyOf(line) == SplitFirst(line, <<"=">>)[1]

EndsWith(s, suffix) ==
    /\ Len(suffix) <= Len(s)
    /\ SubSeq(s, Len(s) - Len(suffix) + 1, Len(s)) = suffix

\* the line sets an option named "address"
HasAddressKey(line) ==
    /\ Contains(line, <<"=">>)
    /\ EndsWith(KeyOf(line), <<".", "a", "d", "d", "r", "e", "s", "s">>)

WithoutLead(e) == IF e # <<>> /\ e[1] = "/" THEN Tail(e) ELSE e

\* the position of the only "/" of e, with a dotted domain before it and an
\* ip after it; 0 when e has no such position
SlashOf(e) ==
    LET ok == {k \in 2..(Len(e) - 1) :
                  /\ e[k] = "/"
                  /\ \A j \in 1..Len(e) : j # k => e[j] # "/"
                  /\ \E j \in 1..(k - 1) : e[j] = "."}
    IN  IF ok = {} THEN 0 ELSE CHOOSE k \in ok : TRUE

RECURSIVE ExpectedOfEntries(_)
ExpectedOfEntries(es) ==
    IF es = <<>> THEN <<>>
    ELSE LET e == WithoutLead(Head(es))
             k == SlashOf(e)
         IN  (IF k = 0 THEN <<>>
              ELSE <<Rec(Strip(SubSeq(e, 1, k - 1), Whitespace),
                         Strip(SubSeq(e, k + 1, Len(e)), Whitespace))>>)
             \o ExpectedOfEntries(Tail(es))

RECURSIVE ExpectedRecords(_)
ExpectedRecords(lines) ==
    IF lines = <<>> THEN <<>>
    ELSE (IF HasAddressKey(Head(lines))
          THEN ExpectedOfEntries(EntriesOfLine(Head(lines)))
          ELSE <<>>)
         \o ExpectedRecords(Tail(lines))

\* C9: get_records returns, in order, one record per list entry of an
\* address line that has, after one leading "/", exactly one "/" between a
\* non-empty dotted domain and a non-empty ip; every other entry is omitted,
\* and a line that does not set the address option yields no record.
C9_ParserRecords ==
    parsed.done => parsed.records = ExpectedRecords(LinesOf(text))

-----------------------------------------------------------------------------
(* Properties of the request handlers *)

Names(r) == [i \in 1..Len(cmds[r]) |-> cmds[r][i].cmd]
Issued(r, name) == \E i \in 1..Len(cmds[r]) : cmds[r][i].cmd = name
FailedCmd(r, name) ==
    \E i \in 1..Len(cmds[r]) : cmds[r][i].cmd = name /\ cmds[r][i].rc # 0
AllOk(r) == \A i \in 1..Len(cmds[r]) : cmds[r][i].rc = 0
MutatingCmds == {"add_list", "del_list", "commit", "reload"}
Mutated(r) == \E name \in MutatingCmds : Issued(r, name)

Authorized(r) == req[r].key = API_KEY
OnDns(r, method) == req[r].path = "/dns" /\ req[r].method = method
Completed(r) == pc[r] = "done"
\* the handler has its response and still holds the lock
AtExit(r) == pc[r] = "release"

\* an authorized POST /dns that passed the validation
ValidPost(r) ==
    /\ OnDns(r, "POST")
    /\ Authorized(r)
    /\ pc[r] \notin {"idle", "auth", "route"}
    /\ resp[r].code # 400

\* an authorized PUT or DELETE /dns that passed the validation
ValidChange(r, method) ==
    /\ OnDns(r, method)
    /\ Authorized(r)
    /\ pc[r] \notin {"idle", "auth", "route"}
    /\ resp[r].code # 400

HasRead(r) == Len(cmds[r]) >= 1 /\ cmds[r][1] = Cmd("show", 0)

\* what GET /dns answers in the current state
Listed == get_records(store)

Times(recs, rec) == Cardinality({i \in 1..Len(recs) : recs[i] = rec})

PairOf(r) == Rec(req[r].body.domain, req[r].body.ip)

\* the record of the request matches the domain and the ip filter
Hit(r, rec) ==
    /\ rec.domain = req[r].body.domain
    /\ req[r].body.ip = Empty \/ rec.ip = req[r].body.ip
NumHits(r) == Cardinality({i \in 1..Len(records[r]) : Hit(r, records[r][i])})

\* C1: two concurrent authorized valid POSTs for different domains, neither
\* pair present beforehand and every command succeeding, both answer "added"
\* and a GET /dns after both lists both pairs.
C1_NoLostUpdate ==
    ( /\ \A r \in Reqs : Completed(r) /\ ValidPost(r) /\ AllOk(r)
      /\ \A r \in Reqs : ~(\E i \in 1..Len(records[r]) : records[r][i] = PairOf(r))
      /\ req[1].body.domain # req[2].body.domain )
    => /\ \A r \in Reqs : resp[r].status = "added"
       /\ \A r \in Reqs : Times(Listed, PairOf(r)) >= 1

\* C2: after a successful POST of a pair that was not in the store the list
\* holds exactly one entry equal to it; a further POST of the same pair
\* answers "exists", runs no add_list, commit or reload, and the list still
\* holds exactly one such entry.
C2_AddListRoundTrip ==
    /\ \A r \in Reqs :
          ( /\ ValidPost(r) /\ AtExit(r) /\ AllOk(r)
            /\ resp[r].status = "added" )
          => Times(Listed, PairOf(r)) = 1
    /\ \A r1, r2 \in Reqs :
          ( /\ r1 # r2
            /\ ValidPost(r1) /\ Completed(r1) /\ AllOk(r1)
            /\ ValidPost(r2) /\ Completed(r2) /\ AllOk(r2)
            /\ PairOf(r1) = PairOf(r2)
            /\ resp[r1].status = "added" )
          => /\ resp[r2].status = "exists"
             /\ ~Mutated(r2)
             /\ Times(Listed, PairOf(r1)) = 1

\* C3: a DELETE whose domain (and ip filter) matches none of the records read
\* under the lock answers 404, runs no del_list, and leaves the store's
\* records as they were read.
C3_DeleteNotFound ==
    \A r \in Reqs :
        ( /\ ValidChange(r, "DELETE")
          /\ pc[r] \in {"release", "done"}
          /\ HasRead(r)
          /\ NumHits(r) = 0 )
        => /\ resp[r].code = 404
           /\ ~Mutated(r)
           /\ AtExit(r) => Listed = records[r]

C3_Witness ==
    \E r \in Reqs :
        /\ ValidChange(r, "DELETE") /\ Completed(r) /\ HasRead(r)
        /\ NumHits(r) = 0
        /\ records[r] # <<>>
        /\ resp[r].code = 404

\* C4: a request to a path other than /health whose key is missing or wrong
\* is answered 401 and runs no external command, whatever its method.
C4_Unauthorized ==
    \A r \in Reqs :
        ( /\ pc[r] \notin {"idle", "auth"}
          /\ req[r].path # "/health"
          /\ req[r].key # API_KEY )
        => /\ Completed(r)
           /\ resp[r].code = 401
           /\ cmds[r] = <<>>

C4_Witness ==
    \E r \in Reqs :
        /\ Completed(r) /\ resp[r].code = 401
        /\ req[r].method = "DELETE" /\ req[r].path = "/dns"
        /\ req[r].key = "none"
        /\ store # <<>>

Repeat(name, n) == [i \in 1..n |-> name]

\* the commands of a mutating request in the order of the contract
Ordered(r) ==
    <<"show">> \o Repeat("del_list", NumHits(r))
    \o (IF req[r].method = "DELETE" THEN <<>> ELSE <<"add_list">>)
    \o <<"commit", "reload">>

IsPrefix(s, t) == Len(s) <= Len(t) /\ SubSeq(t, 1, Len(s)) = s

\* C5 as stated: every mutating request that reaches the command phase runs
\* one del_list per record removed, then at most one add_list, then exactly
\* one commit, then exactly one reload.
C5_Original ==
    \A r \in Reqs :
        /\ Mutated(r) => IsPrefix(Names(r), Ordered(r))
        /\ (Completed(r) /\ Mutated(r)) => Names(r) = Ordered(r)

\* C5 amended: the order is as stated, with exactly one commit and one
\* reload, except that a POST whose add_list exits non-zero runs neither.
C5_CommandOrder ==
    \A r \in Reqs :
        /\ Mutated(r) => IsPrefix(Names(r), Ordered(r))
        /\ (Completed(r) /\ Mutated(r)) =>
              IF req[r].method = "POST" /\ FailedCmd(r, "add_list")
              THEN Names(r) = <<"show", "add_list">>
              ELSE Names(r) = Ordered(r)

C5_Witness ==
    \E r \in Reqs :
        /\ Completed(r) /\ OnDns(r, "PUT") /\ NumHits(r) = 2
        /\ Names(r) = <<"show", "del_list", "del_list", "add_list", "commit",
                        "reload">>

IsError(r) == resp[r].code >= 400

\* C6: in POST and in PUT a non-zero exit code of add_list ends the request
\* in an error response instead of "added"/"updated"; a non-zero exit code
\* of a del_list never changes the response.
C6_AddFailureIsError ==
    \A r \in Reqs :
        Completed(r) =>
            /\ FailedCmd(r, "add_list") => IsError(r)
            /\ (FailedCmd(r, "del_list") /\ ~FailedCmd(r, "add_list"))
                  => resp[r] = Resp(200, SuccessStatus(req[r].method))


\* C7 as stated: a POST, PUT or DELETE that ends in 400 or 404 has run no
\* external command at all, the configuration dump included.
C7_Original ==
    \A r \in Reqs :
        ( /\ req[r].method \in {"POST", "PUT", "DELETE"}
          /\ Completed(r)
          /\ resp[r].code \in {400, 404} )
        => cmds[r] = <<>>

\* C7 amended: one that ends in 400 has run no external command; one that
\* ends in 404 has run at most the configuration dump, and no add_list,
\* del_list, commit or reload.
C7_ErrorsBeforeMutation ==
    \A r \in Reqs :
        ( /\ req[r].method \in {"POST", "PUT", "DELETE"}
          /\ Completed(r) )
        => /\ resp[r].code = 400 => cmds[r] = <<>>
           /\ resp[r].code = 404 => cmds[r] \in {<<>>, <<Cmd("show", 0)>>}

C7_Witness ==
    /\ \E r \in Reqs :
          /\ OnDns(r, "PUT") /\ Completed(r) /\ resp[r].code = 404
          /\ cmds[r] = <<Cmd("show", 0)>>
    /\ \E r \in Reqs :
          /\ OnDns(r, "POST") /\ Completed(r) /\ resp[r].code = 400
          /\ cmds[r] = <<>>

\* the records left when those the request matches are taken out
Kept(r) == SelectSeq(records[r], LAMBDA x : ~Hit(r, x))

SameBag(s, t) ==
    /\ Len(s) = Len(t)
    /\ \A i \in 1..Len(s) : Times(s, s[i]) = Times(t, s[i])

\* C8: after a PUT that answers "updated" with every command succeeding, the
\* store's records are the records read, minus those of the domain (and of
\* the ip filter), plus one record (domain, new_ip).
C8_UpdateReplaces ==
    \A r \in Reqs :
        ( /\ ValidChange(r, "PUT") /\ AtExit(r) /\ AllOk(r)
          /\ resp[r].status = "updated" )
        => SameBag(Listed,
                   Append(Kept(r), Rec(req[r].body.domain, req[r].body.new_ip)))

\* between the dump of a mutating handler and its last command
InCritical(r) == pc[r] \in {"read", "del", "add", "commit", "reload"}

\* C10: at most one POST/PUT/DELETE handler is between its re-read of the
\* records and its last external command, and it is the holder of the lock.
C10_MutualExclusion ==
    /\ Cardinality({r \in Reqs : InCritical(r)}) <= 1
    /\ \A r \in Reqs : InCritical(r) => lock = r

C10_Witness ==
    \E r1, r2 \in Reqs :
        /\ pc[r1] = "add" /\ Issued(r1, "del_list")
        /\ pc[r2] = "lock" /\ OnDns(r2, "DELETE")

-----------------------------------------------------------------------------
(* The same properties on the inputs that the defects leave alone *)

DottedDomains == \A r \in Reqs : Contains(req[r].body.domain, <<".">>)

\* C1 for domains that hold a dot: no update is lost
C1_DottedNoLostUpdate == DottedDomains => C1_NoLostUpdate

\* C2 for domains that hold a dot: the round trip holds
C2_DottedRoundTrip == DottedDomains => C2_AddListRoundTrip

\* C6 for POST alone: a failed add_list ends in the error response
C6_PostAddFailureIsError ==
    \A r \in Reqs :
        (Completed(r) /\ req[r].method = "POST" /\ FailedCmd(r, "add_list"))
        => IsError(r)

\* every entry of the store is written as "/domain/ip" is by this program
LeadingSlashes == \A i \in 1..Len(store) : store[i][1] = "/"

\* C8 for stores whose entries all start with "/": the update replaces
C8_CanonicalUpdateReplaces == LeadingSlashes => C8_UpdateReplaces

\* C9 for dumps where ".address=" occurs only at the end of an address key
C9_KeyedParserRecords ==
    (\A i \in 1..Len(LinesOf(text)) :
        IsAddressLine(LinesOf(text)[i]) = HasAddressKey(LinesOf(text)[i]))
    => C9_ParserRecords

=============================================================================
